---------------------------- MODULE Spec2Model ----------------------------
(***************************************************************************)
(* A model of package log (src/log.go): the process-wide logger core       *)
(* (NewLogger, SetLevel, Sync, the four global entry points) and the       *)
(* panic-recovery hook (CatchException, newDumpFile).                      *)
(*                                                                         *)
(* Goroutines are the elements of Procs.  Every access to the package      *)
(* variable l, to a field of a Logger, to fileWs or to the file system is  *)
(* one step, so that the interleavings of the unsynchronised accesses of   *)
(* the source are behaviours of the model.  A racy read of a word-sized    *)
(* variable returns a value that was written to it.                        *)
(***************************************************************************)
EXTENDS Integers, Sequences, FiniteSets

(* ------------------------------ bounds ---------------------------------- *)
NumProcs == 2          \* goroutines started beside the main one
MaxNewLogger == 2      \* NewLogger calls (each one allocates a Logger)
MaxCalls == 3          \* calls the main goroutine makes, one after the other
MaxOpts == 2           \* options passed to one NewLogger call (SpecOpts)
MaxTick == 1           \* seconds the clock advances
PreSuffix == 1         \* largest suffix of a dump file left by an earlier run

\* the last goroutine is the main one; the others make one call each
Workers == 1..NumProcs
Main == NumProcs + 1
Procs == {Main} \cup Workers
Loggers == 1..MaxNewLogger

\* A dump-file name is <<second, n>>: exceptions.HH_MM_SS.log for n = 0 and
\* exceptions.HH_MM_SS_n.log for n >= 1.  The probing loop is unbounded; the
\* names of the model are enough for every file the bounds allow.
MaxSuffix == PreSuffix + MaxCalls + 1
Names == (0..MaxTick) \X (0..MaxSuffix)
NoFile == <<-1, -1>>

(* --------------------------- program constants -------------------------- *)
\* zapcore.Level: Debug < Info < Warn < Error
DebugLevel == -1
InfoLevel == 0
WarnLevel == 1
ErrorLevel == 2
Levels == {DebugLevel, InfoLevel, WarnLevel, ErrorLevel}

DefaultMaxSize == 100
DefaultMaxBackups == 60
DefaultMaxAge == 30

\* Strings are sequences of characters, so that len() and + are computed.
sp == <<"/">>
DotLog == <<".", "l", "o", "g">>
DefaultAppName == <<"a", "p", "p">>
Cwd == <<"/", "w">>
LogsDir == <<"l", "o", "g", "s">>

\* nil values
NilOpts == [nil |-> "Options"]
NilLogger == [nil |-> "zap.Logger"]
NilWs == [nil |-> "WriteSyncer"]
NoLevel == 99          \* the nil *atomic.Int32 of a zero zap.Config.Level

\* the zero value of zap.Config as far as the package uses it
\* (atom identifies the *atomic.Int32 behind Level; 0 is the nil pointer)
ZeroConfig == [preset |-> "zero", atom |-> 0, Level |-> NoLevel,
               timeEncoder |-> FALSE, DisableStacktrace |-> FALSE, OutputPaths |-> "none"]

VARIABLES
    l,          \* var l *Logger: 0 is nil, else the index of a Logger
    mu,         \* Logger.RWMutex: 0 unlocked, else the goroutine that locked it
    Opts,       \* Logger.Opts
    zapConfig,  \* Logger.zapConfig
    zlogger,    \* Logger.Logger, the embedded *zap.Logger
    inited,     \* Logger.inited
    fileWs,     \* var fileWs zapcore.WriteSyncer
    bind,       \* var Debug, Info, Warn, Error: the *zap.Logger each is bound to
    out,        \* the records delivered to the sinks, in order
    pc,         \* each goroutine's position
    arg,        \* the argument of the call a goroutine is in
    idx,        \* NewLogger: index of the next option of the range loop
    rcv,        \* the receiver a goroutine holds (Lock, init, a log call)
    dl,         \* NewLogger: the receiver of the deferred Unlock, 0 if none
    tmp,        \* the operands of a Level.SetLevel call evaluated and not yet used
    lg,         \* the frame of the log call a goroutine is in
    pan,        \* the panic propagating in a goroutine, "none" if none
    guard,      \* whether the running routine deferred CatchException
    ret,        \* the result of the last call a goroutine completed
    crashed,    \* the process has terminated abnormally
    calls,      \* how many calls of each operation have been started
    made,       \* how many calls each goroutine has started
    op,         \* the call each goroutine is in, "none" between calls
    hist,       \* history: the levels passed to SetLevel, and the last call of
                \* SetLevel that returned
    clock,      \* the second time.Now() is in
    fs,         \* the dump directory: what each dump-file name is
    written,    \* the records appended to each dump file
    dump,       \* newDumpFile and CatchException: the locals of a goroutine
    handle,     \* the dump file a goroutine holds open, NoFile if none
    printed,    \* what CatchException printed to the console
    opened      \* history: the dump files opened, in order, and by which recovery

logVars == <<l, mu, Opts, zapConfig, zlogger, inited, fileWs, bind, out>>
procVars == <<pc, arg, idx, rcv, dl, tmp, lg, pan, guard, ret, crashed, calls, made,
              op, hist>>
dumpVars == <<clock, fs, written, dump, handle, printed, opened>>
vars == <<logVars, procVars, dumpVars>>

(* ---------------------------- initial state ----------------------------- *)
EntryPoints == {"Debug", "Info", "Warn", "Error"}

\* A zapcore.Core is [kind, ws]: its encoder and the WriteSyncer it writes to.
\* A *zap.Logger is [cores, lvl]: the cores of its Tee and the Logger whose
\* zapConfig.Level its LevelEnablerFunc reads (0: the constant zap.DebugLevel).
Stdout == [Filename |-> <<"s", "t", "d", "o", "u", "t">>]

\* func init(): the entry points are bound to a console-only core at Debug.
Bootstrap == [cores |-> <<[kind |-> "console", ws |-> Stdout]>>, lvl |-> 0]

NoFrame == [z |-> NilLogger, sev |-> DebugLevel, msg |-> "none", k |-> 0,
            hits |-> <<>>, cont |-> "idle"]
NoResult == [kind |-> "none"]
\* written: the levels passed to SetLevel so far; last: the level of the last
\* SetLevel call that returned; alone: no other SetLevel call overlapped it
NoHistory == [written |-> {}, last |-> DebugLevel, returned |-> 0, alone |-> TRUE]
NoDump == [err |-> "none", sec |-> 0, n |-> 0, fn |-> NoFile]
NoOperands == [i |-> 0, atom |-> 0, v |-> DebugLevel]

Init ==
    /\ l = 0
    /\ mu = [i \in Loggers |-> 0]
    /\ Opts = [i \in Loggers |-> NilOpts]
    /\ zapConfig = [i \in Loggers |-> ZeroConfig]
    /\ zlogger = [i \in Loggers |-> NilLogger]
    /\ inited = [i \in Loggers |-> FALSE]
    /\ fileWs = NilWs
    /\ bind = [e \in EntryPoints |-> Bootstrap]
    /\ out = <<>>
    /\ pc = [t \in Procs |-> "idle"]
    /\ arg = [t \in Procs |-> <<>>]
    /\ idx = [t \in Procs |-> 0]
    /\ rcv = [t \in Procs |-> 0]
    /\ dl = [t \in Procs |-> 0]
    /\ tmp = [t \in Procs |-> NoOperands]
    /\ lg = [t \in Procs |-> NoFrame]
    /\ pan = [t \in Procs |-> "none"]
    /\ guard = [t \in Procs |-> FALSE]
    /\ ret = [t \in Procs |-> NoResult]
    /\ crashed = FALSE
    /\ calls = [k \in {"NewLogger", "SetLevel", "Log", "Sync", "Panic"} |-> 0]
    /\ made = [t \in Procs |-> 0]
    /\ op = [t \in Procs |-> "none"]
    /\ hist = NoHistory
    /\ clock = 0
    /\ fs = [f \in Names |-> "none"]
    /\ written = [f \in Names |-> <<>>]
    /\ dump = [t \in Procs |-> NoDump]
    /\ handle = [t \in Procs |-> NoFile]
    /\ printed = {}
    /\ opened = <<>>


(* ------------------------------ options --------------------------------- *)
\* An Option is [fn, v]: the With... function that made it and its argument.
\* Each With... function returns a closure assigning one field of *Options.
WithMaxSize(o, v) == [o EXCEPT !.MaxSize = v]
WithMaxBackups(o, v) == [o EXCEPT !.MaxBackups = v]
\* a faulty WithMaxAge that assigns the neighbouring field
WithMaxAge_WrongField(o, v) == [o EXCEPT !.MaxBackups = v]
WithMaxAge(o, v) == [o EXCEPT !.MaxAge = v]
WithLogFileDir(o, v) == [o EXCEPT !.LogFileDir = v]
WithAppName(o, v) == [o EXCEPT !.AppName = v]
WithLevel(o, v) == [o EXCEPT !.Level = v]
WithFileName(o, v) == [o EXCEPT !.FileName = v]
WithErrorFileName(o, v) == [o EXCEPT !.ErrorFileName = v]
WithWarnFileName(o, v) == [o EXCEPT !.WarnFileName = v]
WithInfoFileName(o, v) == [o EXCEPT !.InfoFileName = v]
WithDebugFileName(o, v) == [o EXCEPT !.DebugFileName = v]
WithDevelopment(o, v) == [o EXCEPT !.Development = v]

\* fn(l.Opts) for the option fn
ApplyOption(fn, o) ==
    CASE fn.fn = "WithMaxSize" -> WithMaxSize(o, fn.v)
      [] fn.fn = "WithMaxBackups" -> WithMaxBackups(o, fn.v)
      [] fn.fn = "WithMaxAge" -> WithMaxAge(o, fn.v)
      [] fn.fn = "WithLogFileDir" -> WithLogFileDir(o, fn.v)
      [] fn.fn = "WithAppName" -> WithAppName(o, fn.v)
      [] fn.fn = "WithLevel" -> WithLevel(o, fn.v)
      [] fn.fn = "WithFileName" -> WithFileName(o, fn.v)
      [] fn.fn = "WithErrorFileName" -> WithErrorFileName(o, fn.v)
      [] fn.fn = "WithWarnFileName" -> WithWarnFileName(o, fn.v)
      [] fn.fn = "WithInfoFileName" -> WithInfoFileName(o, fn.v)
      [] fn.fn = "WithDebugFileName" -> WithDebugFileName(o, fn.v)
      [] fn.fn = "WithDevelopment" -> WithDevelopment(o, fn.v)

\* &Options{...} of NewLogger: the fields not named are zero
DefaultOptions ==
    [LogFileDir |-> <<>>, AppName |-> DefaultAppName, FileName |-> DotLog,
     ErrorFileName |-> <<>>, WarnFileName |-> <<>>, InfoFileName |-> <<>>,
     DebugFileName |-> <<>>, Level |-> DebugLevel, MaxSize |-> DefaultMaxSize,
     MaxBackups |-> DefaultMaxBackups, MaxAge |-> DefaultMaxAge,
     Development |-> FALSE, Merge |-> FALSE,
     OutputPaths |-> "nil", ErrorOutputPaths |-> "nil"]

\* l.Opts.LogFileDir, _ = filepath.Abs(filepath.Dir(filepath.Join(".")));  += sp + "logs" + sp
ResolveLogFileDir(o) ==
    IF o.LogFileDir = <<>>
    THEN [o EXCEPT !.LogFileDir = Cwd \o sp \o LogsDir \o sp]
    ELSE o

\* zap.NewDevelopmentConfig() / zap.NewProductionConfig() with EncodeTime
\* replaced, then the two OutputPaths assignments.  Each preset comes with a
\* new AtomicLevel; old is the config it replaces.
PresetConfig(o, old) ==
    LET base == IF o.Development
                THEN [preset |-> "development", atom |-> old.atom + 1,
                      Level |-> DebugLevel, timeEncoder |-> TRUE,
                      DisableStacktrace |-> FALSE, OutputPaths |-> "preset"]
                ELSE [preset |-> "production", atom |-> old.atom + 1,
                      Level |-> InfoLevel, timeEncoder |-> TRUE,
                      DisableStacktrace |-> FALSE, OutputPaths |-> "preset"]
        c1 == IF o.OutputPaths = "nil"
              THEN [base EXCEPT !.OutputPaths = "stdout"] ELSE base
    IN  IF o.ErrorOutputPaths = "nil"
        THEN [c1 EXCEPT !.OutputPaths = "stderr"] ELSE c1

\* a faulty f that drops the hyphen for ".log" only
fileName_DotLogOnly(o, fN) ==
    IF fN = DotLog
    THEN o.LogFileDir \o sp \o o.AppName \o fN
    ELSE o.LogFileDir \o sp \o o.AppName \o <<"-">> \o fN
\* the closure f of setSyncers
fileName(o, fN) ==
    IF Len(fN) = Len(DotLog)
    THEN o.LogFileDir \o sp \o o.AppName \o fN
    ELSE o.LogFileDir \o sp \o o.AppName \o <<"-">> \o fN

setSyncers(o) ==
    [Filename |-> fileName(o, o.FileName), MaxSize |-> o.MaxSize,
     MaxBackups |-> o.MaxBackups, MaxAge |-> o.MaxAge]

\* a faulty cores that never attaches the console
cores_FileOnly(i, o, ws) == [cores |-> <<[kind |-> "file", ws |-> ws]>>, lvl |-> i]
\* cores(): the file core always, the console core in Development, both with
\* the one enabler filePriority of the receiver i
cores(i, o, ws) ==
    [cores |-> IF o.Development
               THEN <<[kind |-> "file", ws |-> ws], [kind |-> "console", ws |-> Stdout]>>
               ELSE <<[kind |-> "file", ws |-> ws]>>,
     lvl |-> i]

\* l.zapConfig.Level.Level() for the Logger an enabler belongs to
LevelOf(i) == IF i = 0 THEN DebugLevel ELSE zapConfig[i].Level

\* a faulty filePriority that drops the records at the threshold
filePriority_Strict(lvl, i) == lvl > LevelOf(i)
\* filePriority: lvl >= l.zapConfig.Level.Level()
filePriority(lvl, i) == lvl >= LevelOf(i)

\* faulty operands: the level the AtomicLevel already holds
LevelOperands_Stale == [i |-> l, atom |-> zapConfig[l].atom, v |-> zapConfig[l].Level]
\* The operands of l.zapConfig.Level.SetLevel(l.Opts.Level): the AtomicLevel
\* (a pointer, copied) and the level
LevelOperands == [i |-> l, atom |-> zapConfig[l].atom, v |-> Opts[l].Level]

\* a faulty store that leaves the AtomicLevel as it was
StoreLevel_Lost(r) == zapConfig
\* AtomicLevel.SetLevel: a store through the pointer; it is lost when the
\* Logger's zapConfig has been replaced since the pointer was read
StoreLevel(r) ==
    IF zapConfig[r.i].atom = r.atom
    THEN [zapConfig EXCEPT ![r.i].Level = r.v]
    ELSE zapConfig

(* --------------------------- control helpers ---------------------------- *)
Running(t, p) == ~crashed /\ pc[t] = p

Goto(t, p) == pc' = [pc EXCEPT ![t] = p]

\* a panic starts unwinding: the deferred Unlock first, if one is registered
Raise(t, v) ==
    /\ pan' = [pan EXCEPT ![t] = v]
    /\ lg' = [lg EXCEPT ![t] = NoFrame]
    /\ pc' = [pc EXCEPT ![t] = IF dl[t] # 0 THEN "unlock" ELSE "exit"]

\* a call of a method of *zap.Logger z at severity sev; p is where it returns
CallLog(t, z, sev, msg, p) ==
    /\ lg' = [lg EXCEPT ![t] = [z |-> z, sev |-> sev, msg |-> msg, k |-> 0,
                                hits |-> <<>>, cont |-> p]]
    /\ pc' = [pc EXCEPT ![t] = "check"]


(* ------------------------------ NewLogger ------------------------------- *)
\* The call and line 91: l = &Logger{}.  opt is the option list, g whether the
\* calling routine deferred CatchException.
NewLogger(t, opt, g) ==
    /\ Running(t, "idle")
    /\ calls["NewLogger"] < MaxNewLogger
    /\ calls' = [calls EXCEPT !["NewLogger"] = @ + 1]
    /\ made' = [made EXCEPT ![t] = @ + 1]
    /\ op' = [op EXCEPT ![t] = "NewLogger"]
    /\ UNCHANGED hist
    /\ l' = calls["NewLogger"] + 1
    /\ arg' = [arg EXCEPT ![t] = opt]
    /\ guard' = [guard EXCEPT ![t] = g]
    /\ ret' = [ret EXCEPT ![t] = NoResult]
    /\ Goto(t, "n92")
    /\ UNCHANGED <<mu, Opts, zapConfig, zlogger, inited, fileWs, bind, out,
                   idx, rcv, dl, tmp, lg, pan, crashed>>
    /\ UNCHANGED dumpVars

\* line 92, l.Lock(): the receiver is read ...
NewLoggerLockRcv(t) ==
    /\ Running(t, "n92")
    /\ rcv' = [rcv EXCEPT ![t] = l]
    /\ Goto(t, "n92w")
    /\ UNCHANGED <<logVars, arg, idx, dl, tmp, lg, pan, guard, ret, crashed, calls, made, op, hist>>
    /\ UNCHANGED dumpVars

\* ... and its mutex acquired once it is free
NewLoggerLock(t) ==
    /\ Running(t, "n92w")
    /\ mu[rcv[t]] = 0
    /\ mu' = [mu EXCEPT ![rcv[t]] = t]
    /\ Goto(t, "n93")
    /\ UNCHANGED <<l, Opts, zapConfig, zlogger, inited, fileWs, bind, out,
                   arg, idx, rcv, dl, tmp, lg, pan, guard, ret, crashed, calls, made, op, hist>>
    /\ UNCHANGED dumpVars

\* line 93, defer l.Unlock(): the receiver is evaluated now
NewLoggerDefer(t) ==
    /\ Running(t, "n93")
    /\ dl' = [dl EXCEPT ![t] = l]
    /\ Goto(t, "n94")
    /\ UNCHANGED <<logVars, arg, idx, rcv, tmp, lg, pan, guard, ret, crashed, calls, made, op, hist>>
    /\ UNCHANGED dumpVars

\* line 94, if l.inited
NewLoggerInitedTest(t) ==
    /\ Running(t, "n94")
    /\ Goto(t, IF inited[l] THEN "n95" ELSE "n98")
    /\ UNCHANGED <<logVars, arg, idx, rcv, dl, tmp, lg, pan, guard, ret, crashed, calls, made, op, hist>>
    /\ UNCHANGED dumpVars

\* line 95, l.Info("[NewLogger] logger Inited")
NewLoggerInitedInfo(t) ==
    /\ Running(t, "n95")
    /\ CallLog(t, zlogger[l], InfoLevel, "inited", "n96")
    /\ UNCHANGED <<logVars, arg, idx, rcv, dl, tmp, pan, guard, ret, crashed, calls, made, op, hist>>
    /\ UNCHANGED dumpVars

\* line 96, return nil
NewLoggerReturnNil(t) ==
    /\ Running(t, "n96")
    /\ ret' = [ret EXCEPT ![t] = [kind |-> "nil"]]
    /\ Goto(t, "unlock")
    /\ UNCHANGED <<logVars, arg, idx, rcv, dl, tmp, lg, pan, guard, crashed, calls, made, op, hist>>
    /\ UNCHANGED dumpVars

\* lines 98-106, l.Opts = &Options{...}
NewLoggerDefaults(t) ==
    /\ Running(t, "n98")
    /\ Opts' = [Opts EXCEPT ![l] = DefaultOptions]
    /\ Goto(t, "n107")
    /\ UNCHANGED <<l, mu, zapConfig, zlogger, inited, fileWs, bind, out,
                   arg, idx, rcv, dl, tmp, lg, pan, guard, ret, crashed, calls, made, op, hist>>
    /\ UNCHANGED dumpVars

\* lines 107-110; l.Opts is nil when another call has replaced l
NewLoggerLogFileDir(t) ==
    /\ Running(t, "n107")
    /\ IF Opts[l] = NilOpts
       THEN Raise(t, "nil dereference") /\ UNCHANGED Opts
       ELSE /\ Opts' = [Opts EXCEPT ![l] = ResolveLogFileDir(@)]
            /\ Goto(t, "n111")
            /\ UNCHANGED <<pan, lg>>
    /\ UNCHANGED <<l, mu, zapConfig, zlogger, inited, fileWs, bind, out,
                   arg, idx, rcv, dl, tmp, guard, ret, crashed, calls, made, op, hist>>
    /\ UNCHANGED dumpVars

\* lines 111-123, the preset chosen by l.Opts.Development and the output paths
NewLoggerPreset(t) ==
    /\ Running(t, "n111")
    /\ IF Opts[l] = NilOpts
       THEN Raise(t, "nil dereference") /\ UNCHANGED <<zapConfig, idx>>
       ELSE /\ zapConfig' = [zapConfig EXCEPT ![l] = PresetConfig(Opts[l], @)]
            /\ idx' = [idx EXCEPT ![t] = 1]
            /\ Goto(t, "n124")
            /\ UNCHANGED <<pan, lg>>
    /\ UNCHANGED <<l, mu, Opts, zlogger, inited, fileWs, bind, out,
                   arg, rcv, dl, tmp, guard, ret, crashed, calls, made, op, hist>>
    /\ UNCHANGED dumpVars

\* lines 124-126, one iteration of for _, fn := range opt { fn(l.Opts) }
NewLoggerOption(t) ==
    /\ Running(t, "n124")
    /\ idx[t] <= Len(arg[t])
    /\ IF Opts[l] = NilOpts
       THEN Raise(t, "nil dereference") /\ UNCHANGED <<Opts, idx>>
       ELSE /\ Opts' = [Opts EXCEPT ![l] = ApplyOption(arg[t][idx[t]], @)]
            /\ idx' = [idx EXCEPT ![t] = @ + 1]
            /\ UNCHANGED <<pc, pan, lg>>
    /\ UNCHANGED <<l, mu, zapConfig, zlogger, inited, fileWs, bind, out,
                   arg, rcv, dl, tmp, guard, ret, crashed, calls, made, op, hist>>
    /\ UNCHANGED dumpVars

\* lines 127-128: DisableStacktrace = true, and the operands of
\* l.zapConfig.Level.SetLevel(l.Opts.Level) are evaluated ...
NewLoggerLevelArg(t) ==
    /\ Running(t, "n124")
    /\ idx[t] > Len(arg[t])
    /\ IF Opts[l] = NilOpts
       THEN Raise(t, "nil dereference") /\ UNCHANGED <<zapConfig, tmp>>
       ELSE /\ zapConfig' = [zapConfig EXCEPT ![l].DisableStacktrace = TRUE]
            /\ tmp' = [tmp EXCEPT ![t] = LevelOperands]
            /\ Goto(t, "n128")
            /\ UNCHANGED <<pan, lg>>
    /\ UNCHANGED <<l, mu, Opts, zlogger, inited, fileWs, bind, out,
                   arg, idx, rcv, dl, guard, ret, crashed, calls, made, op, hist>>
    /\ UNCHANGED dumpVars

\* ... and the level stored
NewLoggerLevel(t) ==
    /\ Running(t, "n128")
    /\ IF tmp[t].atom = 0
       THEN Raise(t, "nil dereference") /\ UNCHANGED zapConfig
       ELSE /\ zapConfig' = StoreLevel(tmp[t])
            /\ Goto(t, "n129")
            /\ UNCHANGED <<pan, lg>>
    /\ UNCHANGED <<l, mu, Opts, zlogger, inited, fileWs, bind, out,
                   arg, idx, rcv, dl, tmp, guard, ret, crashed, calls, made, op, hist>>
    /\ UNCHANGED dumpVars

\* line 129, l.init(): the receiver of init, setSyncers and cores is read once
NewLoggerCallInit(t) ==
    /\ Running(t, "n129")
    /\ rcv' = [rcv EXCEPT ![t] = l]
    /\ Goto(t, "i142")
    /\ UNCHANGED <<logVars, arg, idx, dl, tmp, lg, pan, guard, ret, crashed, calls, made, op, hist>>
    /\ UNCHANGED dumpVars

\* line 142 (151-167), l.setSyncers(): fileWs = f(l.Opts.FileName)
initSetSyncers(t) ==
    /\ Running(t, "i142")
    /\ IF Opts[rcv[t]] = NilOpts
       THEN Raise(t, "nil dereference") /\ UNCHANGED fileWs
       ELSE /\ fileWs' = setSyncers(Opts[rcv[t]])
            /\ Goto(t, "i144")
            /\ UNCHANGED <<pan, lg>>
    /\ UNCHANGED <<l, mu, Opts, zapConfig, zlogger, inited, bind, out,
                   arg, idx, rcv, dl, tmp, guard, ret, crashed, calls, made, op, hist>>
    /\ UNCHANGED dumpVars

\* lines 143-148, l.Logger, err = l.zapConfig.Build(l.cores()); ok is whether
\* Build succeeds.  On an error l.Logger is nil and init panics.
initBuild(t, ok) ==
    /\ Running(t, "i144")
    /\ IF Opts[rcv[t]] = NilOpts
       THEN Raise(t, "nil dereference") /\ UNCHANGED zlogger
       ELSE IF ok
       THEN /\ zlogger' = [zlogger EXCEPT ![rcv[t]] = cores(rcv[t], Opts[rcv[t]], fileWs)]
            /\ Goto(t, "n130")
            /\ UNCHANGED <<pan, lg>>
       ELSE /\ zlogger' = [zlogger EXCEPT ![rcv[t]] = NilLogger]
            /\ Raise(t, "build error")
    /\ UNCHANGED <<l, mu, Opts, zapConfig, inited, fileWs, bind, out,
                   arg, idx, rcv, dl, tmp, guard, ret, crashed, calls, made, op, hist>>
    /\ UNCHANGED dumpVars

\* line 130, l.inited = true
NewLoggerSetInited(t) ==
    /\ Running(t, "n130")
    /\ inited' = [inited EXCEPT ![l] = TRUE]
    /\ Goto(t, "n131")
    /\ UNCHANGED <<l, mu, Opts, zapConfig, zlogger, fileWs, bind, out,
                   arg, idx, rcv, dl, tmp, lg, pan, guard, ret, crashed, calls, made, op, hist>>
    /\ UNCHANGED dumpVars

\* line 131, l.Info("[NewLogger] success")
NewLoggerSuccessInfo(t) ==
    /\ Running(t, "n131")
    /\ CallLog(t, zlogger[l], InfoLevel, "success", "n133")
    /\ UNCHANGED <<logVars, arg, idx, rcv, dl, tmp, pan, guard, ret, crashed, calls, made, op, hist>>
    /\ UNCHANGED dumpVars

\* lines 133-136, one of Info = l.Logger.Info, Debug = ..., Warn = ..., Error = ...
\* (a method value of a nil *zap.Logger is bound without a panic)
Rebind(t, p, e, q) ==
    /\ Running(t, p)
    /\ bind' = [bind EXCEPT ![e] = zlogger[l]]
    /\ Goto(t, q)
    /\ UNCHANGED <<l, mu, Opts, zapConfig, zlogger, inited, fileWs, out,
                   arg, idx, rcv, dl, tmp, lg, pan, guard, ret, crashed, calls, made, op, hist>>
    /\ UNCHANGED dumpVars

NewLoggerRebind(t) ==
    \/ Rebind(t, "n133", "Info", "n134")
    \/ Rebind(t, "n134", "Debug", "n135")
    \/ Rebind(t, "n135", "Warn", "n136")
    \/ Rebind(t, "n136", "Error", "n138")

\* line 138, return l.Logger
NewLoggerReturn(t) ==
    /\ Running(t, "n138")
    /\ ret' = [ret EXCEPT ![t] = [kind |-> "logger", z |-> zlogger[l]]]
    /\ Goto(t, "unlock")
    /\ UNCHANGED <<logVars, arg, idx, rcv, dl, tmp, lg, pan, guard, crashed, calls, made, op, hist>>
    /\ UNCHANGED dumpVars

\* the deferred l.Unlock() of line 93, on return and on a panic: unlocking an
\* unlocked RWMutex is a fatal error of the runtime
NewLoggerUnlock(t) ==
    /\ Running(t, "unlock")
    /\ IF mu[dl[t]] = 0
       THEN crashed' = TRUE /\ UNCHANGED <<mu, dl, pc>>
       ELSE /\ mu' = [mu EXCEPT ![dl[t]] = 0]
            /\ dl' = [dl EXCEPT ![t] = 0]
            /\ Goto(t, "exit")
            /\ UNCHANGED crashed
    /\ UNCHANGED <<l, Opts, zapConfig, zlogger, inited, fileWs, bind, out,
                   arg, idx, rcv, tmp, lg, pan, guard, ret, calls, made, op, hist>>
    /\ UNCHANGED dumpVars

(* ------------------------------- SetLevel ------------------------------- *)
\* History, taken when a call starts: how many SetLevel calls have started and
\* returned, whether none is in progress, and the last one that returned.
Snapshot ==
    [sets |-> calls["SetLevel"], quiet |-> calls["SetLevel"] = hist.returned,
     last |-> hist.last, alone |-> hist.alone]

\* The call and lines 270-272: if l == nil { return }
SetLevel(t, level, g) ==
    /\ Running(t, "idle")
    /\ calls' = [calls EXCEPT !["SetLevel"] = @ + 1]
    /\ made' = [made EXCEPT ![t] = @ + 1]
    /\ op' = [op EXCEPT ![t] = "SetLevel"]
    /\ hist' = [hist EXCEPT !.written = @ \cup {level},
                            !.returned = IF l = 0 THEN @ + 1 ELSE @]
    /\ arg' = [arg EXCEPT ![t] = [level |-> level, at |-> Snapshot]]
    /\ guard' = [guard EXCEPT ![t] = g]
    /\ ret' = [ret EXCEPT ![t] = NoResult]
    /\ Goto(t, IF l = 0 THEN "exit" ELSE "s273")
    /\ UNCHANGED <<logVars, idx, rcv, dl, tmp, lg, pan, crashed>>
    /\ UNCHANGED dumpVars

\* line 273, l.Opts.Level = level
SetLevelOpts(t) ==
    /\ Running(t, "s273")
    /\ IF Opts[l] = NilOpts
       THEN Raise(t, "nil dereference") /\ UNCHANGED Opts
       ELSE /\ Opts' = [Opts EXCEPT ![l].Level = arg[t].level]
            /\ Goto(t, "s274")
            /\ UNCHANGED <<pan, lg>>
    /\ UNCHANGED <<l, mu, zapConfig, zlogger, inited, fileWs, bind, out,
                   arg, idx, rcv, dl, tmp, guard, ret, crashed, calls, made, op, hist>>
    /\ UNCHANGED dumpVars

\* line 274, l.zapConfig.Level.SetLevel(l.Opts.Level): the operands ...
SetLevelArg(t) ==
    /\ Running(t, "s274")
    /\ IF Opts[l] = NilOpts
       THEN Raise(t, "nil dereference") /\ UNCHANGED tmp
       ELSE /\ tmp' = [tmp EXCEPT ![t] = LevelOperands]
            /\ Goto(t, "s274w")
            /\ UNCHANGED <<pan, lg>>
    /\ UNCHANGED <<logVars, arg, idx, rcv, dl, guard, ret, crashed, calls, made, op, hist>>
    /\ UNCHANGED dumpVars

\* ... and the store
SetLevelStore(t) ==
    /\ Running(t, "s274w")
    /\ IF tmp[t].atom = 0
       THEN Raise(t, "nil dereference") /\ UNCHANGED zapConfig
       ELSE /\ zapConfig' = StoreLevel(tmp[t])
            /\ Goto(t, "s275")
            /\ UNCHANGED <<pan, lg>>
    /\ UNCHANGED <<l, mu, Opts, zlogger, inited, fileWs, bind, out,
                   arg, idx, rcv, dl, tmp, guard, ret, crashed, calls, made, op, hist>>
    /\ UNCHANGED dumpVars

\* line 275, l.Info("[SetLevel] success")
SetLevelInfo(t) ==
    /\ Running(t, "s275")
    /\ CallLog(t, zlogger[l], InfoLevel, "setlevel", "s276")
    /\ UNCHANGED <<logVars, arg, idx, rcv, dl, tmp, pan, guard, ret, crashed, calls, made, op, hist>>
    /\ UNCHANGED dumpVars

\* line 276: SetLevel returns (the history notes which call returned last)
SetLevelReturn(t) ==
    /\ Running(t, "s276")
    /\ hist' = [hist EXCEPT !.last = arg[t].level, !.returned = @ + 1,
                            !.alone = arg[t].at.quiet /\ calls["SetLevel"] = arg[t].at.sets + 1]
    /\ Goto(t, "exit")
    /\ UNCHANGED <<logVars, arg, idx, rcv, dl, tmp, lg, pan, guard, ret, crashed, calls, made, op>>
    /\ UNCHANGED dumpVars

(* --------------------------------- Sync --------------------------------- *)
\* The call and lines 279-281: if l == nil { return }
Sync(t, g) ==
    /\ Running(t, "idle")
    /\ calls' = [calls EXCEPT !["Sync"] = @ + 1]
    /\ made' = [made EXCEPT ![t] = @ + 1]
    /\ op' = [op EXCEPT ![t] = "Sync"]
    /\ UNCHANGED hist
    /\ guard' = [guard EXCEPT ![t] = g]
    /\ ret' = [ret EXCEPT ![t] = NoResult]
    /\ Goto(t, IF l = 0 THEN "exit" ELSE "y282")
    /\ UNCHANGED <<logVars, arg, idx, rcv, dl, tmp, lg, pan, crashed>>
    /\ UNCHANGED dumpVars

\* line 282, l.Logger.Sync(): the sinks hold no buffered records
SyncFlush(t) ==
    /\ Running(t, "y282")
    /\ IF zlogger[l] = NilLogger
       THEN Raise(t, "nil dereference")
       ELSE Goto(t, "exit") /\ UNCHANGED <<pan, lg>>
    /\ UNCHANGED <<logVars, arg, idx, rcv, dl, tmp, guard, ret, crashed, calls, made, op, hist>>
    /\ UNCHANGED dumpVars

(* ------------------- Debug, Info, Warn, Error and zap ------------------- *)
SeverityOf(e) ==
    CASE e = "Debug" -> DebugLevel
      [] e = "Info" -> InfoLevel
      [] e = "Warn" -> WarnLevel
      [] e = "Error" -> ErrorLevel

\* A call of the entry point e: the function variable is read and called.
Log(t, e, g) ==
    /\ Running(t, "idle")
    /\ calls' = [calls EXCEPT !["Log"] = @ + 1]
    /\ made' = [made EXCEPT ![t] = @ + 1]
    /\ op' = [op EXCEPT ![t] = "Log"]
    /\ UNCHANGED hist
    /\ arg' = [arg EXCEPT ![t] = [id |-> calls["Log"] + 1, e |-> e, at |-> Snapshot]]
    /\ guard' = [guard EXCEPT ![t] = g]
    /\ ret' = [ret EXCEPT ![t] = NoResult]
    /\ CallLog(t, bind[e], SeverityOf(e), "user", "exit")
    /\ UNCHANGED <<logVars, idx, rcv, dl, tmp, pan, crashed>>
    /\ UNCHANGED dumpVars

\* the records a log call writes: one per core that accepted the entry
Written(t, hits) ==
    [n \in 1..Len(hits) |->
        [sink |-> lg[t].z.cores[hits[n]].kind,
         file |-> lg[t].z.cores[hits[n]].ws.Filename,
         sev |-> lg[t].sev, msg |-> lg[t].msg,
         id |-> IF lg[t].msg = "user" THEN arg[t].id ELSE 0]]

\* zap.Logger.check: a nil *zap.Logger panics; the entry is dropped at once
\* when the Tee (all of whose cores have the one enabler) is not enabled
zapCheck(t) ==
    /\ Running(t, "check")
    /\ IF lg[t].z = NilLogger
       THEN Raise(t, "nil dereference")
       ELSE IF filePriority(lg[t].sev, lg[t].z.lvl)
       THEN /\ lg' = [lg EXCEPT ![t].k = 1]
            /\ Goto(t, "core")
            /\ UNCHANGED pan
       ELSE /\ lg' = [lg EXCEPT ![t] = NoFrame]
            /\ Goto(t, lg[t].cont)
            /\ UNCHANGED pan
    /\ UNCHANGED <<logVars, arg, idx, rcv, dl, tmp, guard, ret, crashed, calls, made, op, hist>>
    /\ UNCHANGED dumpVars

\* the Tee asks core k (ioCore.Check evaluates the enabler again); after the
\* last core the entry is written to the cores that accepted it
zapCore(t) ==
    /\ Running(t, "core")
    /\ LET hits == IF filePriority(lg[t].sev, lg[t].z.lvl)
                   THEN Append(lg[t].hits, lg[t].k) ELSE lg[t].hits
       IN  IF lg[t].k < Len(lg[t].z.cores)
           THEN /\ lg' = [lg EXCEPT ![t].k = @ + 1, ![t].hits = hits]
                /\ UNCHANGED <<out, pc>>
           ELSE /\ out' = out \o Written(t, hits)
                /\ lg' = [lg EXCEPT ![t] = NoFrame]
                /\ Goto(t, lg[t].cont)
    /\ UNCHANGED <<l, mu, Opts, zapConfig, zlogger, inited, fileWs, bind,
                   arg, idx, rcv, dl, tmp, pan, guard, ret, crashed, calls, made, op, hist>>
    /\ UNCHANGED dumpVars

(* --------------------------- end of a routine --------------------------- *)
\* the locals of the call go out of scope
Locals(t) ==
    /\ arg' = [arg EXCEPT ![t] = <<>>]
    /\ idx' = [idx EXCEPT ![t] = 0]
    /\ rcv' = [rcv EXCEPT ![t] = 0]
    /\ tmp' = [tmp EXCEPT ![t] = NoOperands]
    /\ op' = [op EXCEPT ![t] = "none"]

\* The routine that made the call ends.  Without a deferred CatchException a
\* propagating panic terminates the process.
Exit(t) ==
    /\ Running(t, "exit")
    /\ ~guard[t]
    /\ IF pan[t] # "none"
       THEN crashed' = TRUE /\ UNCHANGED <<pc, arg, idx, rcv, tmp, op>>
       ELSE /\ Goto(t, "idle")
            /\ Locals(t)
            /\ UNCHANGED crashed
    /\ UNCHANGED <<logVars, dl, lg, pan, guard, ret, calls, made, hist>>
    /\ UNCHANGED dumpVars


\* With a deferred CatchException the routine's end runs it (line 289).
ExitGuarded(t) ==
    /\ Running(t, "exit")
    /\ guard[t]
    /\ Goto(t, "ce290")
    /\ UNCHANGED <<logVars, arg, idx, rcv, dl, tmp, lg, pan, guard, ret, crashed, calls, made, op, hist>>
    /\ UNCHANGED dumpVars

(* ---------------------- CatchException, newDumpFile --------------------- *)
\* A routine of the application panics.
Panic(t, g) ==
    /\ Running(t, "idle")
    /\ calls' = [calls EXCEPT !["Panic"] = @ + 1]
    /\ made' = [made EXCEPT ![t] = @ + 1]
    /\ op' = [op EXCEPT ![t] = "Panic"]
    /\ UNCHANGED hist
    /\ arg' = [arg EXCEPT ![t] = [id |-> calls["Panic"] + 1]]
    /\ guard' = [guard EXCEPT ![t] = g]
    /\ ret' = [ret EXCEPT ![t] = NoResult]
    /\ pan' = [pan EXCEPT ![t] = "panic"]
    /\ Goto(t, "exit")
    /\ UNCHANGED <<logVars, idx, rcv, dl, tmp, lg, crashed>>
    /\ UNCHANGED dumpVars

\* time passes
Tick ==
    /\ ~crashed
    /\ clock < MaxTick
    /\ clock' = clock + 1
    /\ UNCHANGED <<logVars, procVars, fs, written, dump, handle, printed, opened>>

\* a faulty recover that leaves the panic propagating
recover_Rethrown(p) == p
\* recover() called by the deferred function itself: the panic stops
\* propagating and its value is returned ("none": nil, no panic)
recover(p) == "none"

\* line 290, if err := recover(); err != nil
CatchException(t) ==
    /\ Running(t, "ce290")
    /\ dump' = [dump EXCEPT ![t] = [NoDump EXCEPT !.err = pan[t]]]
    /\ pan' = [pan EXCEPT ![t] = recover(@)]
    /\ Goto(t, IF pan[t] # "none" THEN "d329" ELSE "ce314")
    /\ UNCHANGED <<logVars, arg, idx, rcv, dl, tmp, lg, guard, ret, crashed, calls, made, op, hist>>
    /\ UNCHANGED <<clock, fs, written, handle, printed, opened>>

\* lines 329-334: now := time.Now(), the names, os.MkdirAll
newDumpFile(t) ==
    /\ Running(t, "d329")
    /\ dump' = [dump EXCEPT ![t].sec = clock]
    /\ Goto(t, "d335")
    /\ UNCHANGED <<logVars, arg, idx, rcv, dl, tmp, lg, pan, guard, ret, crashed, calls, made, op, hist>>
    /\ UNCHANGED <<clock, fs, written, handle, printed, opened>>

\* a faulty isFileExist that finds every name taken
isFileExist_Always(fn) == TRUE
\* a faulty isFileExist that counts directories as files
isFileExist_AnyEntry(fn) == fs[fn] # "none"
\* lines 318-327: os.Stat succeeds and the entry is not a directory
isFileExist(fn) == fs[fn] = "file"

\* lines 334-339: the name without a suffix is tried first
newDumpFileBase(t) ==
    /\ Running(t, "d335")
    /\ LET fn == <<dump[t].sec, 0>>
       IN  IF ~isFileExist(fn)
           THEN dump' = [dump EXCEPT ![t].fn = fn] /\ Goto(t, "ce291")
           ELSE dump' = [dump EXCEPT ![t].n = 1] /\ Goto(t, "d341")
    /\ UNCHANGED <<logVars, arg, idx, rcv, dl, tmp, lg, pan, guard, ret, crashed, calls, made, op, hist>>
    /\ UNCHANGED <<clock, fs, written, handle, printed, opened>>

\* lines 340-347: one iteration of the probing loop
newDumpFileProbe(t) ==
    /\ Running(t, "d341")
    /\ LET fn == <<dump[t].sec, dump[t].n>>
       IN  IF ~isFileExist(fn)
           THEN dump' = [dump EXCEPT ![t].fn = fn] /\ Goto(t, "ce291")
           ELSE /\ dump[t].n < MaxSuffix
                /\ dump' = [dump EXCEPT ![t].n = @ + 1]
                /\ UNCHANGED pc
    /\ UNCHANGED <<logVars, arg, idx, rcv, dl, tmp, lg, pan, guard, ret, crashed, calls, made, op, hist>>
    /\ UNCHANGED <<clock, fs, written, handle, printed, opened>>

\* which panic a dump is of: the panics of the application are numbered, one
\* raised inside a call of the package is 0
DumpId(t) == IF op[t] = "Panic" THEN arg[t].id ELSE 0

\* lines 291-295: os.OpenFile(fn, O_RDWR|O_APPEND|O_CREATE); can is whether the
\* system lets the file be opened.  A directory of that name cannot be.
\* On an error it is printed and CatchException returns.
CatchExceptionOpen(t, can) ==
    /\ Running(t, "ce291")
    /\ IF can /\ fs[dump[t].fn] # "dir"
       THEN /\ fs' = [fs EXCEPT ![dump[t].fn] = "file"]
            /\ handle' = [handle EXCEPT ![t] = dump[t].fn]
            /\ opened' = Append(opened, [id |-> DumpId(t), fn |-> dump[t].fn])
            /\ Goto(t, "ce297")
            /\ UNCHANGED printed
       ELSE /\ printed' = printed \cup {[id |-> DumpId(t), what |-> "open error"]}
            /\ Goto(t, "ce314")
            /\ UNCHANGED <<fs, handle, opened>>
    /\ UNCHANGED <<logVars, arg, idx, rcv, dl, tmp, lg, pan, guard, ret, crashed, calls, made, op, hist>>
    /\ UNCHANGED <<clock, written, dump>>

\* lines 297-312: defer logfile.Close(); the record is written to the file
\* (can: whether the write succeeds; its error is ignored) and to the console
CatchExceptionWrite(t, can) ==
    /\ Running(t, "ce297")
    /\ written' = IF can THEN [written EXCEPT ![handle[t]] = Append(@, DumpId(t))]
                  ELSE written
    /\ printed' = printed \cup {[id |-> DumpId(t), what |-> "dump"]}
    /\ Goto(t, "ce313")
    /\ UNCHANGED <<logVars, arg, idx, rcv, dl, tmp, lg, pan, guard, ret, crashed, calls, made, op, hist>>
    /\ UNCHANGED <<clock, fs, dump, handle, opened>>

\* a faulty CatchException that returns without closing the file
CatchExceptionClose_Leak(t) ==
    /\ Running(t, "ce313")
    /\ Goto(t, "ce314")
    /\ UNCHANGED <<logVars, arg, idx, rcv, dl, tmp, lg, pan, guard, ret, crashed, calls, made, op, hist>>
    /\ UNCHANGED dumpVars
\* line 313: the deferred logfile.Close() runs
CatchExceptionClose(t) ==
    /\ Running(t, "ce313")
    /\ handle' = [handle EXCEPT ![t] = NoFile]
    /\ Goto(t, "ce314")
    /\ UNCHANGED <<logVars, arg, idx, rcv, dl, tmp, lg, pan, guard, ret, crashed, calls, made, op, hist>>
    /\ UNCHANGED <<clock, fs, written, dump, printed, opened>>

\* line 314: CatchException returns.  A panic it recovered is over and the
\* routine returns to its caller; one still propagating ends the process.
CatchExceptionReturn(t) ==
    /\ Running(t, "ce314")
    /\ IF pan[t] # "none"
       THEN crashed' = TRUE /\ UNCHANGED <<pc, arg, idx, rcv, tmp, op, ret, guard, dump>>
       ELSE /\ Goto(t, "idle")
            /\ Locals(t)
            /\ ret' = IF dump[t].err # "none"
                      THEN [ret EXCEPT ![t] = [kind |-> "recovered", id |-> DumpId(t), err |-> dump[t].err]]
                      ELSE ret
            /\ guard' = [guard EXCEPT ![t] = FALSE]
            /\ dump' = [dump EXCEPT ![t] = NoDump]
            /\ UNCHANGED crashed
    /\ UNCHANGED <<logVars, dl, lg, pan, calls, made, hist>>
    /\ UNCHANGED <<clock, fs, written, handle, printed, opened>>


(* ---------------------------- specifications ---------------------------- *)
\* the steps inside a call, by function
NewLoggerStep(t, builds) ==
    \/ NewLoggerLockRcv(t)
    \/ NewLoggerLock(t)
    \/ NewLoggerDefer(t)
    \/ NewLoggerInitedTest(t)
    \/ NewLoggerDefaults(t)
    \/ NewLoggerLogFileDir(t)
    \/ NewLoggerPreset(t)
    \/ NewLoggerOption(t)
    \/ NewLoggerLevelArg(t)
    \/ NewLoggerLevel(t)
    \/ NewLoggerCallInit(t)
    \/ initSetSyncers(t)
    \/ \E ok \in builds : initBuild(t, ok)
    \/ NewLoggerSetInited(t)
    \/ NewLoggerSuccessInfo(t)
    \/ NewLoggerRebind(t)
    \/ NewLoggerReturn(t)
    \/ NewLoggerUnlock(t)

\* lines 95-96 are reached only when another goroutine has replaced l by a
\* Logger it initialized: the Logger of line 91 is new and its inited false
NewLoggerInitedStep(t) ==
    \/ NewLoggerInitedInfo(t)
    \/ NewLoggerReturnNil(t)

SetLevelStep(t) ==
    \/ SetLevelOpts(t)
    \/ SetLevelArg(t)
    \/ SetLevelStore(t)
    \/ SetLevelInfo(t)
    \/ SetLevelReturn(t)

zapStep(t) ==
    \/ zapCheck(t)
    \/ zapCore(t)

CatchExceptionStep(t) ==
    \/ ExitGuarded(t)
    \/ CatchException(t)
    \/ newDumpFile(t)
    \/ newDumpFileBase(t)
    \/ newDumpFileProbe(t)
    \/ \E can \in BOOLEAN : CatchExceptionOpen(t, can)
    \/ \E can \in BOOLEAN : CatchExceptionWrite(t, can)
    \/ CatchExceptionClose(t)
    \/ CatchExceptionReturn(t)

\* the option lists of the specifications with several calls
LevelOptions == {[fn |-> "WithLevel", v |-> v] : v \in {InfoLevel, WarnLevel}}
                  \cup {[fn |-> "WithDevelopment", v |-> TRUE]}
ShortOptLists == {<<>>} \cup {<<o>> : o \in LevelOptions}

\* Spec: the goroutines started beside the main one call NewLogger, SetLevel
\* and Sync concurrently, one call each; no routine defers CatchException.
Next ==
    \E t \in Workers :
        \/ made[t] = 0 /\ \E opt \in ShortOptLists : NewLogger(t, opt, FALSE)
        \/ made[t] = 0 /\ \E lv \in Levels : SetLevel(t, lv, FALSE)
        \/ made[t] = 0 /\ Sync(t, FALSE)
        \/ NewLoggerStep(t, BOOLEAN)
        \/ NewLoggerInitedStep(t)
        \/ SetLevelStep(t)
        \/ SyncFlush(t)
        \/ zapStep(t)
        \/ Exit(t)

Spec == Init /\ [][Next]_vars

\* SpecSeq: the main goroutine makes up to MaxCalls calls, one after the other.
NextSeq ==
    \/ made[Main] < MaxCalls /\ \E opt \in ShortOptLists : NewLogger(Main, opt, FALSE)
    \/ made[Main] < MaxCalls /\ \E lv \in Levels : SetLevel(Main, lv, FALSE)
    \/ made[Main] < MaxCalls /\ Sync(Main, FALSE)
    \/ made[Main] < MaxCalls /\ \E e \in EntryPoints : Log(Main, e, FALSE)
    \/ NewLoggerStep(Main, BOOLEAN)
    \/ SetLevelStep(Main)
    \/ SyncFlush(Main)
    \/ zapStep(Main)
    \/ Exit(Main)

SpecSeq == Init /\ [][NextSeq]_vars

\* SpecLevel: the main goroutine initializes the core; then the other
\* goroutines call SetLevel and the entry points concurrently, one call each.
Initialized == l # 0 /\ inited[l] /\ pc[Main] = "idle"

DevOptLists == {<<>>, <<[fn |-> "WithDevelopment", v |-> TRUE]>>}

NextLevel ==
    \/ calls["NewLogger"] = 0 /\ \E opt \in DevOptLists : NewLogger(Main, opt, FALSE)
    \/ NewLoggerStep(Main, {TRUE})
    \/ \E t \in Workers :
        \/ Initialized /\ made[t] = 0 /\ \E lv \in Levels : SetLevel(t, lv, FALSE)
        \/ Initialized /\ made[t] = 0 /\ \E e \in EntryPoints : Log(t, e, FALSE)
        \/ SetLevelStep(t)
    \/ \E t \in Procs :
        \/ zapStep(t)
        \/ Exit(t)

SpecLevel == Init /\ [][NextLevel]_vars

\* SpecOpts: one NewLogger call with every list of up to MaxOpts options.
IntValues == {5, 7}
Dirs == {<<"d">>, <<"/", "v", "/">>}
FileNames == {<<"e", ".", "l", "o", "g">>, <<".", "t", "x", "t">>}
AllOptions ==
    {[fn |-> f, v |-> v] : f \in {"WithMaxSize", "WithMaxBackups", "WithMaxAge"},
                           v \in IntValues}
      \cup {[fn |-> "WithLogFileDir", v |-> v] : v \in Dirs}
      \cup {[fn |-> "WithAppName", v |-> v] : v \in {<<"s">>, <<"t">>}}
      \cup {[fn |-> "WithLevel", v |-> v] : v \in Levels}
      \cup {[fn |-> f, v |-> v] : f \in {"WithFileName", "WithErrorFileName",
                "WithWarnFileName", "WithInfoFileName", "WithDebugFileName"},
                                  v \in FileNames}
      \cup {[fn |-> "WithDevelopment", v |-> v] : v \in BOOLEAN}

RECURSIVE ListsUpTo(_, _)
ListsUpTo(S, n) ==
    IF n = 0 THEN {<<>>}
    ELSE LET shorter == ListsUpTo(S, n - 1)
         IN  shorter \cup {Append(q, x) : q \in shorter, x \in S}

NextOpts ==
    \/ calls["NewLogger"] = 0
         /\ \E opt \in ListsUpTo(AllOptions, MaxOpts) : NewLogger(Main, opt, FALSE)
    \/ NewLoggerStep(Main, BOOLEAN)
    \/ zapStep(Main)
    \/ Exit(Main)

SpecOpts == Init /\ [][NextOpts]_vars

\* The dump directory at the start: files and directories left by earlier
\* runs under the names of second 0 with a suffix up to PreSuffix.
InitDump ==
    /\ l = 0
    /\ mu = [i \in Loggers |-> 0]
    /\ Opts = [i \in Loggers |-> NilOpts]
    /\ zapConfig = [i \in Loggers |-> ZeroConfig]
    /\ zlogger = [i \in Loggers |-> NilLogger]
    /\ inited = [i \in Loggers |-> FALSE]
    /\ fileWs = NilWs
    /\ bind = [e \in EntryPoints |-> Bootstrap]
    /\ out = <<>>
    /\ pc = [t \in Procs |-> "idle"]
    /\ arg = [t \in Procs |-> <<>>]
    /\ idx = [t \in Procs |-> 0]
    /\ rcv = [t \in Procs |-> 0]
    /\ dl = [t \in Procs |-> 0]
    /\ tmp = [t \in Procs |-> NoOperands]
    /\ lg = [t \in Procs |-> NoFrame]
    /\ pan = [t \in Procs |-> "none"]
    /\ guard = [t \in Procs |-> FALSE]
    /\ ret = [t \in Procs |-> NoResult]
    /\ crashed = FALSE
    /\ calls = [k \in {"NewLogger", "SetLevel", "Log", "Sync", "Panic"} |-> 0]
    /\ made = [t \in Procs |-> 0]
    /\ op = [t \in Procs |-> "none"]
    /\ hist = NoHistory
    /\ clock = 0
    /\ \E pre \in [0..PreSuffix -> {"none", "file", "dir"}] :
          fs = [f \in Names |-> IF f[1] = 0 /\ f[2] <= PreSuffix
                                THEN pre[f[2]] ELSE "none"]
    /\ written = [f \in Names |-> <<>>]
    /\ dump = [t \in Procs |-> NoDump]
    /\ handle = [t \in Procs |-> NoFile]
    /\ printed = {}
    /\ opened = <<>>

\* SpecDump: routines that deferred CatchException run concurrently, one in
\* each goroutine started beside the main one; they panic or return.
NextDump ==
    \/ Tick
    \/ \E t \in Workers :
        \/ made[t] = 0 /\ Panic(t, TRUE)
        \/ made[t] = 0 /\ Sync(t, TRUE)
        \/ CatchExceptionStep(t)

SpecDump == InitDump /\ [][NextDump]_vars

\* SpecDumpSeq: the main goroutine runs up to MaxCalls such routines, one
\* after the other.
NextDumpSeq ==
    \/ Tick
    \/ made[Main] < MaxCalls /\ Panic(Main, TRUE)
    \/ made[Main] < MaxCalls /\ Sync(Main, TRUE)
    \/ CatchExceptionStep(Main)

SpecDumpSeq == InitDump /\ [][NextDumpSeq]_vars

\* SpecDumpLive: SpecDump with the scheduler's guarantee that a goroutine
\* which can run does run: a recovery in progress takes its next step.
SpecDumpLive ==
    /\ InitDump
    /\ [][NextDump]_vars
    /\ \A t \in Workers : WF_vars(CatchExceptionStep(t))

\* SpecGuard: the main goroutine calls NewLogger, from a routine that deferred
\* CatchException or from one that did not, and the entry points, one call
\* after the other.
NextGuard ==
    \/ made[Main] < MaxCalls /\ \E opt \in DevOptLists, g \in BOOLEAN : NewLogger(Main, opt, g)
    \/ made[Main] < MaxCalls /\ \E e \in EntryPoints : Log(Main, e, FALSE)
    \/ NewLoggerStep(Main, BOOLEAN)
    \/ zapStep(Main)
    \/ Exit(Main)
    \/ CatchExceptionStep(Main)

SpecGuard == Init /\ [][NextGuard]_vars

(* ------------------------------ properties ------------------------------ *)
\* the record of log call id was written to the sink of core c
Delivered(id, c) ==
    \E j \in 1..Len(out) :
        /\ out[j].msg = "user" /\ out[j].id = id
        /\ out[j].sink = c.kind /\ out[j].file = c.ws.Filename

\* every record of log call id is in a sink of the *zap.Logger z
OnlyTo(id, z) ==
    \A j \in 1..Len(out) :
        (out[j].msg = "user" /\ out[j].id = id)
            => \E k \in 1..Len(z.cores) :
                  out[j].sink = z.cores[k].kind /\ out[j].file = z.cores[k].ws.Filename

\* C1 (SpecSeq): initialization is idempotent: over NewLogger calls made one
\* after the other the sinks and the core are constructed once, and a second
\* call returns nil and has emitted the "logger Inited" record.
C1_InitIdempotent ==
    /\ Cardinality({i \in Loggers : zlogger[i] # NilLogger}) <= 1
    /\ (calls["NewLogger"] >= 2 /\ op[Main] = "NewLogger" /\ pc[Main] = "exit")
          => /\ ret[Main].kind = "nil"
             /\ \E j \in 1..Len(out) : out[j].msg = "inited"

\* the positions of NewLogger from the first write of the configuration to
\* the return (lines 98-138), the log call of line 131 included
InitSection ==
    {"n98", "n107", "n111", "n124", "n128", "n129", "i142", "i144", "n130",
     "n131", "n133", "n134", "n135", "n136", "n138"}
InInit(t) ==
    \/ pc[t] \in InitSection
    \/ pc[t] \in {"check", "core"} /\ lg[t].cont = "n133"

\* C2 (Spec): concurrent NewLogger calls exclude each other and only the first
\* succeeds: at most one call is in the initialization section at a time, and
\* at most one call initializes and returns a core.
C2_InitMutualExclusion ==
    /\ Cardinality({t \in Procs : InInit(t)}) <= 1
    /\ Cardinality({t \in Procs : ret[t].kind = "logger"}) <= 1

\* C3 (SpecSeq): a record logged at severity S through the initialized core is
\* delivered to an attached sink iff S >= the configured minimum, with the
\* same decision for every attached sink, and to no other sink.
C3_SeverityFilter ==
    (/\ op[Main] = "Log" /\ pc[Main] = "exit" /\ pan[Main] = "none"
     /\ l # 0 /\ inited[l] /\ bind[arg[Main].e] = zlogger[l])
        => /\ \A k \in 1..Len(zlogger[l].cores) :
                 Delivered(arg[Main].id, zlogger[l].cores[k])
                    <=> SeverityOf(arg[Main].e) >= Opts[l].Level
           /\ OnlyTo(arg[Main].id, zlogger[l])

\* a record at the threshold reaches the file and the console
C3_Witness ==
    /\ op[Main] = "Log" /\ pc[Main] = "exit" /\ l # 0 /\ inited[l]
    /\ bind[arg[Main].e] = zlogger[l]
    /\ Len(zlogger[l].cores) = 2
    /\ arg[Main].e = "Warn" /\ Opts[l].Level = WarnLevel
    /\ Delivered(arg[Main].id, zlogger[l].cores[1])
    /\ Delivered(arg[Main].id, zlogger[l].cores[2])

\* a log call that started after an unoverlapped SetLevel call returned, with
\* no SetLevel call in progress, and during which none started
AfterSetLevel(t) ==
    /\ op[t] = "Log" /\ pc[t] = "exit" /\ pan[t] = "none"
    /\ arg[t].at.sets >= 1 /\ arg[t].at.quiet /\ arg[t].at.alone
    /\ calls["SetLevel"] = arg[t].at.sets

C4_Filter ==
    \A t \in Workers :
        AfterSetLevel(t)
            => /\ \A k \in 1..Len(zlogger[l].cores) :
                     Delivered(arg[t].id, zlogger[l].cores[k])
                        <=> SeverityOf(arg[t].e) >= arg[t].at.last
               /\ OnlyTo(arg[t].id, zlogger[l])

\* C4 (SpecLevel): SetLevel takes effect for subsequent records only: a log
\* call started after SetLevel(T) returned and before the next level change
\* is filtered with T, and the records already delivered stay as they are.
C4_SetLevelSubsequent ==
    /\ []C4_Filter
    /\ [][Len(out') >= Len(out) /\ SubSeq(out', 1, Len(out)) = out]_vars

\* after SetLevel(Error) a Warn record is dropped though records of earlier
\* calls are in the sinks
C4_Witness ==
    \E t \in Workers :
        /\ AfterSetLevel(t)
        /\ arg[t].at.last = ErrorLevel /\ arg[t].e = "Warn"
        /\ \A j \in 1..Len(out) : out[j].msg = "user" => out[j].id # arg[t].id
        /\ Len(out) >= 2

\* a step of goroutine t inside a call
StepOf(t) ==
    \/ NewLoggerStep(t, {TRUE})
    \/ SetLevelStep(t)
    \/ zapStep(t)
    \/ Exit(t)

\* C5 (SpecLevel): concurrent SetLevel and log calls on an initialized core
\* neither crash nor block, and when all have finished the minimum severity
\* is one of the values passed to SetLevel.
C5_ConcurrentSetLevel ==
    /\ ~crashed
    /\ \A t \in Procs : pan[t] = "none"
    /\ \A t \in Procs : pc[t] # "idle" => ENABLED StepOf(t)
    /\ ((\A t \in Procs : pc[t] = "idle") /\ hist.written # {})
          => /\ zapConfig[l].Level \in hist.written
             /\ Opts[l].Level \in hist.written

\* two overlapping SetLevel calls with different levels have finished
C5_Witness ==
    /\ \A t \in Procs : pc[t] = "idle"
    /\ Cardinality(hist.written) = 2 /\ hist.returned = 2 /\ ~hist.alone
    /\ zapConfig[l].Level \in hist.written

\* a NewLogger call has returned a core
Completed == \E u \in Procs : ret[u].kind = "logger" /\ pc[u] \in {"exit", "idle"}

\* C6 (Spec): while no NewLogger call has completed successfully, SetLevel
\* and Sync are no-ops: no step of theirs fails or changes the logger state.
C6_NoOpBeforeInit ==
    [][\A t \in Procs :
          (op[t] \in {"SetLevel", "Sync"} /\ ~Completed /\ pc'[t] # pc[t])
              => (logVars' = logVars /\ pan'[t] = "none")]_vars

\* the field each option assigns
FieldOf(f) ==
    CASE f = "WithMaxSize" -> "MaxSize"
      [] f = "WithMaxBackups" -> "MaxBackups"
      [] f = "WithMaxAge" -> "MaxAge"
      [] f = "WithLogFileDir" -> "LogFileDir"
      [] f = "WithAppName" -> "AppName"
      [] f = "WithLevel" -> "Level"
      [] f = "WithFileName" -> "FileName"
      [] f = "WithErrorFileName" -> "ErrorFileName"
      [] f = "WithWarnFileName" -> "WarnFileName"
      [] f = "WithInfoFileName" -> "InfoFileName"
      [] f = "WithDebugFileName" -> "DebugFileName"
      [] f = "WithDevelopment" -> "Development"

\* the documented defaults (spec 4.1), the output directory resolved
DocumentedDefaults ==
    [LogFileDir |-> <<"/", "w", "/", "l", "o", "g", "s", "/">>,
     AppName |-> <<"a", "p", "p">>, FileName |-> <<".", "l", "o", "g">>,
     ErrorFileName |-> <<>>, WarnFileName |-> <<>>, InfoFileName |-> <<>>,
     DebugFileName |-> <<>>, Level |-> DebugLevel, MaxSize |-> 100,
     MaxBackups |-> 60, MaxAge |-> 30, Development |-> FALSE, Merge |-> FALSE]

\* the value of field f after the options opt: that of the last option
\* assigning f, the default when there is none
LastWrite(opt, f) ==
    LET at == {k \in 1..Len(opt) : FieldOf(opt[k].fn) = f}
    IN  IF at = {} THEN DocumentedDefaults[f]
        ELSE opt[CHOOSE k \in at : \A j \in at : j <= k].v

BeforeLevel == {"idle", "n92", "n92w", "n93", "n94", "n98", "n107", "n111", "n124"}

\* C7 (SpecOpts): options are last-write-wins over the defaults: once the
\* options are applied every field holds the value of the last option that
\* assigns it, or its documented default.
C7_LastWriteWins ==
    (op[Main] = "NewLogger" /\ pc[Main] \notin BeforeLevel)
        => \A f \in DOMAIN DocumentedDefaults : Opts[l][f] = LastWrite(arg[Main], f)

\* two options on one field with different values, a third field untouched
C7_Witness ==
    /\ op[Main] = "NewLogger" /\ pc[Main] = "n138"
    /\ Len(arg[Main]) = 2
    /\ arg[Main][1].fn = "WithMaxAge" /\ arg[Main][2].fn = "WithMaxAge"
    /\ arg[Main][1].v # arg[Main][2].v
    /\ Opts[l].MaxAge = arg[Main][2].v /\ Opts[l].MaxBackups = 60

\* C8 (SpecDump): CatchException never propagates the failure it captured:
\* it returns with no panic propagating, the dump file opened or not, and the
\* process goes on.
C8_NeverPropagates ==
    /\ ~crashed
    /\ \A t \in Procs : pc[t] = "ce314" => pan[t] = "none"
    /\ \A t \in Procs : (op[t] = "Panic" /\ pc[t] = "idle") => ret[t].kind = "recovered"

\* a routine whose dump file could not be opened has returned to its caller
C8_Witness ==
    \E t \in Procs :
        /\ pc[t] = "idle" /\ ret[t].kind = "recovered" /\ ~crashed
        /\ [id |-> ret[t].id, what |-> "open error"] \in printed

\* the name lines 334-347 are to return in second sec
SmallestUnused(sec) ==
    IF fs[<<sec, 0>>] # "file" THEN <<sec, 0>>
    ELSE LET free == {n \in 1..MaxSuffix : fs[<<sec, n>>] # "file"}
         IN  <<sec, CHOOSE n \in free : \A m \in free : n <= m>>

\* the positions in opened of the files of second sec
InSecond(sec) == {i \in 1..Len(opened) : opened[i].fn[1] = sec}

\* C9 (SpecDumpSeq): newDumpFile returns the name without a suffix when no
\* regular file has it, else the one with the smallest suffix n >= 1 that no
\* regular file has; over recoveries in one second that create their files
\* the suffixes increase strictly (none, 1, 2, ... when no file was there
\* before), so no name is chosen twice.
C9_CollisionResolution ==
    /\ pc[Main] = "ce291" => dump[Main].fn = SmallestUnused(dump[Main].sec)
    /\ \A i, j \in 1..Len(opened) :
          (i < j /\ opened[i].fn[1] = opened[j].fn[1])
              => opened[i].fn[2] < opened[j].fn[2]
    /\ \A sec \in 0..MaxTick :
          (\A n \in 0..MaxSuffix :
              fs[<<sec, n>>] = "file" => \E i \in InSecond(sec) : opened[i].fn = <<sec, n>>)
              => \A i \in InSecond(sec) :
                    opened[i].fn[2] = Cardinality({j \in InSecond(sec) : j < i})

\* three recoveries in one second
C9_Witness ==
    /\ Len(opened) = 3
    /\ opened[1].fn = <<0, 0>> /\ opened[2].fn = <<0, 1>> /\ opened[3].fn = <<0, 2>>

\* C10 (SpecDump): no two recoveries, concurrent ones included, choose and
\* append to the same dump file.
C10_UniquePaths ==
    \A i, j \in 1..Len(opened) : i # j => opened[i].fn # opened[j].fn

\* the success records in the file sinks
SuccessRecords == {j \in 1..Len(out) : out[j].msg = "success" /\ out[j].sink = "file"}

\* C11 (SpecSeq): on a successful NewLogger the four entry points are rebound
\* to the new core before the success record is emitted, and each successful
\* initialization emits exactly one success record.
C11_RebindThenSuccess ==
    /\ [][\A t \in Procs :
             (lg[t].msg = "success" /\ lg'[t].msg # "success" /\ pan'[t] = "none")
                 => \A e \in EntryPoints : bind[e] = lg[t].z]_vars
    /\ [](\A t \in Procs :
             (op[t] = "NewLogger" /\ pc[t] = "exit" /\ ret[t].kind = "logger")
                 => Cardinality(SuccessRecords) = calls["NewLogger"])

\* the kinds of the sinks attached to the *zap.Logger z
SinkKinds(z) == {z.cores[k].kind : k \in 1..Len(z.cores)}

\* C12 (SpecOpts): whatever the options, the core NewLogger builds has the
\* file sink attached, and the console sink iff the resulting configuration
\* is in Development mode.
C12_SinksFollowMode ==
    (l # 0 /\ zlogger[l] # NilLogger)
        => /\ "file" \in SinkKinds(zlogger[l])
           /\ ("console" \in SinkKinds(zlogger[l])) <=> Opts[l].Development
           /\ Len(zlogger[l].cores) = Cardinality(SinkKinds(zlogger[l]))

\* Development switched off and on again: both sinks
C12_Witness ==
    /\ op[Main] = "NewLogger" /\ pc[Main] = "n138"
    /\ arg[Main] = <<[fn |-> "WithDevelopment", v |-> FALSE],
                     [fn |-> "WithDevelopment", v |-> TRUE]>>
    /\ SinkKinds(zlogger[l]) = {"file", "console"}

\* filepath.IsAbs on this system, and a trailing separator
IsAbs(d) == Len(d) >= 1 /\ SubSeq(d, 1, 1) = sp
EndsInSeparator(d) == Len(d) >= 1 /\ SubSeq(d, Len(d), Len(d)) = sp

\* C13 (SpecOpts): once NewLogger has resolved the configuration the output
\* directory is an absolute path ending in a separator, whatever the options
\* (a relative WithLogFileDir included); with no directory option it is
\* <cwd>/logs/.
C13_OutputDirResolved ==
    (op[Main] = "NewLogger" /\ pc[Main] \notin BeforeLevel)
        => /\ IsAbs(Opts[l].LogFileDir)
           /\ EndsInSeparator(Opts[l].LogFileDir)
           /\ (\A k \in 1..Len(arg[Main]) : arg[Main][k].fn # "WithLogFileDir")
                 => Opts[l].LogFileDir = Cwd \o sp \o LogsDir \o sp

\* goroutine t has seen zapConfig.Build return an error
BuildFailed(t) ==
    \/ pan[t] = "build error"
    \/ dump[t].err = "build error"
    \/ ret[t].kind = "recovered" /\ ret[t].err = "build error"

\* C14 (SpecGuard): a build failure in NewLogger ends the process: the routine
\* never returns to its caller to run on, a CatchException guard around it
\* included, and the failed call neither rebinds an entry point nor marks the
\* core initialized.
C14_FailFast ==
    \A t \in Procs :
        BuildFailed(t)
            => /\ pc[t] # "idle"
               /\ \A e \in EntryPoints : bind[e] # NilLogger
               /\ \A i \in Loggers : zlogger[i] = NilLogger => ~inited[i]

\* the name the file sink is to have under the options o
SinkName(o) ==
    IF Len(o.FileName) = 4
    THEN o.LogFileDir \o <<"/">> \o o.AppName \o o.FileName
    ELSE o.LogFileDir \o <<"/">> \o o.AppName \o <<"-">> \o o.FileName

\* C15 (SpecOpts): the file sink is named outputDir + separator + appName +
\* "-" + suffix, without the hyphen when the suffix has exactly 4 characters,
\* whatever they are.
C15_FileSinkName ==
    /\ (op[Main] = "NewLogger" /\ fileWs # NilWs) => fileWs.Filename = SinkName(Opts[l])
    /\ (l # 0 /\ zlogger[l] # NilLogger)
          => zlogger[l].cores[1].ws.Filename = SinkName(Opts[l])

\* a suffix of 4 characters that is not ".log", and an app name of its own
C15_Witness ==
    /\ op[Main] = "NewLogger" /\ pc[Main] = "n138"
    /\ Opts[l].FileName = <<".", "t", "x", "t">>
    /\ Opts[l].AppName = <<"s">>
    /\ zlogger[l].cores[1].ws.Filename
          = Cwd \o <<"/", "l", "o", "g", "s", "/", "/", "s", ".", "t", "x", "t">>

\* C16 (SpecOpts): the base preset follows the configured mode: Development
\* when the options leave the mode at Development, Production otherwise, and
\* in both the custom time encoder is installed.
C16_PresetFollowsMode ==
    (op[Main] = "NewLogger" /\ pc[Main] \notin BeforeLevel)
        => /\ zapConfig[l].preset
                 = IF Opts[l].Development THEN "development" ELSE "production"
           /\ zapConfig[l].timeEncoder

\* C17 (SpecDump): the dump-file handle is scoped: a goroutine holds one only
\* between the open and the deferred Close of CatchException, so that on
\* every way out (the write failed, the open failed) none is held when
\* CatchException returns, and the process never ends with one open.
C17_HandleScoped ==
    /\ ~crashed
    /\ \A t \in Procs : handle[t] # NoFile => pc[t] \in {"ce297", "ce313"}
    /\ \A t \in Procs : pc[t] \in {"ce297", "ce313"} => handle[t] = dump[t].fn

\* a recovery whose write failed has returned, its handle closed
C17_Witness ==
    \E t \in Procs :
        /\ pc[t] = "idle" /\ ret[t].kind = "recovered" /\ handle[t] = NoFile
        /\ \E k \in 1..Len(opened) :
              /\ opened[k].id = ret[t].id
              /\ \A j \in 1..Len(written[opened[k].fn]) :
                    written[opened[k].fn][j] # ret[t].id

\* C18 (SpecLevel): whenever no SetLevel or NewLogger call is in progress
\* the level recorded in the options and the threshold of the filter agree,
\* concurrent SetLevel calls included.
C18_LevelsAgree ==
    (/\ l # 0 /\ inited[l]
     /\ \A t \in Procs : op[t] \notin {"SetLevel", "NewLogger"})
        => Opts[l].Level = zapConfig[l].Level

\* the positions of newDumpFile, and those of a recovery
InNewDumpFile == {"d329", "d335", "d341"}
InRecovery == InNewDumpFile \cup {"ce290", "ce291", "ce297", "ce313", "ce314"}

\* C19 (SpecDumpLive): the probing loop terminates: every newDumpFile call
\* returns a name, without running out of the names of the model, and every
\* recovery completes.
C19_ProbingTerminates ==
    /\ \A t \in Workers : (pc[t] \in InNewDumpFile) ~> (pc[t] = "ce291")
    /\ \A t \in Workers : (pc[t] \in InRecovery) ~> (pc[t] = "idle")
    /\ [](\A t \in Workers :
             (pc[t] = "d341" /\ dump[t].n = MaxSuffix)
                 => ~isFileExist(<<dump[t].sec, dump[t].n>>))

\* the loop has gone round more than once before it found a name
C19_Witness ==
    \E t \in Workers : pc[t] = "ce291" /\ dump[t].n >= 2 /\ dump[t].fn[2] = dump[t].n

=============================================================================
